---- MODULE Spec2Model ----
(***************************************************************************)
(* kvs-rs: the multi-segment log-structured engine                         *)
(* (src/src/engines/kvs/store.rs), the server (src/src/bin/kvs-server.rs)  *)
(* and the thread pools (src/src/thread_pool).                             *)
(*                                                                         *)
(* A directory holds segment files data-<id>.  A file is modelled as the   *)
(* sequence of the records appended to it; byte offsets and lengths are    *)
(* computed from the record layout (24 byte header + key + value), so a    *)
(* locator (file_id, pos, sz, timestamp) is the same number the code       *)
(* computes.  The bytes of a key or value are abstracted to its identity   *)
(* and its length.                                                         *)
(***************************************************************************)
EXTENDS Integers, Sequences, FiniteSets, TLC

VARIABLES
    up,                 \* the process is running (an engine is open)
    clock,              \* Utc::now().timestamp()
    dir,                \* ids n such that data-<n> is linked in the directory
    files,              \* id -> content of the inode (kept after unlink)
    index,              \* SkipMap<String, EntryPos>: key -> locator or NoPos
    current_id,         \* DataWriter.current_id
    uncompacted_bytes,  \* DataWriter.uncompacted_bytes
    last_id,            \* DataReader.last_id (shared atomic)
    wreaders,           \* DataWriter.reader.readers: ids with an open handle
    wpc,                \* where the writer thread is
    compact_id,         \* compact(): local compact_id
    cursor,             \* compact(): last key visited by index.iter()
    rpc,                \* where the reader thread is inside get
    rkey,               \* the key of the reader's get
    rp,                 \* the locator the reader's get holds
    readers,            \* the reader clone's DataReader.readers
    rres,               \* result of the reader's last get
    ops,                \* number of set/remove calls made so far
    downs,              \* number of process exits so far
    hist                \* history (ghost) record used to state properties

\* the server (src/src/bin/kvs-server.rs) over an engine behind KvsEngine
VARIABLES
    kv,                 \* the engine's content: key -> value, "" when absent
    cstate,             \* connection -> where its process() call is
    sent,               \* connection -> the responses written to its stream
    reqlog,             \* connection -> the requests served (ghost)
    identity,           \* content of the file `identity`, NoFile when absent
    starts,             \* number of server starts so far
    serving,            \* a server process is inside KvsServer::run
    boot                \* what the last server start did (ghost)

\* the thread pools (src/src/thread_pool)
VARIABLES
    queue,              \* SharedQueueThreadPool: the channel's messages
    receiving,          \* number of worker threads blocked in rx.recv()
    unwinding,          \* number of worker threads unwinding from a panic
    jstate,             \* job -> where the job handed to the shared queue is
    runs,               \* job -> how often a worker called it
    rwait,              \* RayonThreadPool: the job whose install() the caller is in
    rstate              \* job -> where the job handed to the Rayon pool is

VARIABLES
    sender,             \* SharedQueueThreadPool: the pool (its Sender) is not dropped
    printing            \* number of workers in the Err arm of run_tasks' match

VARIABLES               \* the single-file KvStore of engines/kvs.rs
    up1,                \* a KvStore is open
    clock1,             \* Utc::now().timestamp()
    names1,             \* the files of its directory, of data, data.backup, hint
    data,               \* the records of the file named data
    backup,             \* the records of the file named data.backup
    hint,               \* the index serialized in the file named hint
    index1,             \* self.index: key -> EntryPos
    current_file,       \* the name under which the file of self.current_file is linked
    uncompacted_bytes1, \* self.uncompacted_bytes
    pc1,                \* where compact(), or drop after it, is
    in_drop,            \* compact() was called by drop
    todo1,              \* the keys the loop of compact() has not visited
    removed_key,        \* the keys compact() has collected for removal
    ops1,               \* number of set/remove calls so far
    sessions1,          \* number of KvStore::open calls so far
    hist1               \* what is needed to state the properties

VARIABLES
    entries,            \* a directory listed by sorted_file_id_list: its entries
    listed,             \* sorted_file_id_list has returned for these entries
    id_list             \* the Vec<u64> it returned

storeVars == <<up, clock, dir, files, index, current_id, uncompacted_bytes,
               last_id, wreaders, wpc, compact_id, cursor, rpc, rkey, rp,
               readers, rres, ops, downs, hist>>
serverVars == <<kv, cstate, sent, reqlog>>
identVars  == <<identity, starts, serving, boot>>
poolVars   == <<queue, receiving, unwinding, jstate, runs, rwait, rstate>>
listVars   == <<entries, listed, id_list>>
dropVars   == <<sender, printing>>
singleVars == <<up1, clock1, names1, data, backup, hint, index1, current_file,
                uncompacted_bytes1, pc1, in_drop, todo1, removed_key, ops1, sessions1,
                hist1>>
sideVars   == <<serverVars, identVars, poolVars, listVars, dropVars, singleVars>>

vars == <<storeVars, sideVars>>

diskVars   == <<dir, files>>
writerVars == <<current_id, uncompacted_bytes, wreaders, wpc, compact_id, cursor>>
readerVars == <<rpc, rkey, rp, readers, rres>>

----------------------------------------------------------------------------
(* Bounds of the model *)

MaxOps    == 4          \* set/remove calls per behaviour
MaxOpsEdge == 4         \* set/remove calls per behaviour of SpecEdge
MaxOpsEmpty == 5        \* set/remove calls per behaviour of SpecEmpty
MaxOpsReopen == 4       \* set/remove calls per behaviour of SpecReopen
MaxOpsConc == 3         \* set/remove calls per behaviour of SpecConc
MaxDowns  == 1          \* process exits (clean or crash) per behaviour
MaxClock  == 1          \* the clock runs over 0..MaxClock
MaxId     == 6          \* segment ids 1..MaxId
KeyLen    == 1          \* byte length of every key
SmallLen  == 1          \* byte length of the value "s"
HugeLen   == 1048576    \* byte length of the value "H"

Keys   == {1, 2, 3}     \* the key space, ordered as the SkipMap orders it
OpKeys == {1, 2}        \* the keys the calls of Writer, Down, the gets and the requests use
Values == {"s", "H"}    \* non-empty values; "" is the tombstone value
EdgeValues == {"", "s", "E", "H"}
EmptyValues == {"", "s", "H"}
Ids    == 1..MaxId

MaxOpsSingle == 3       \* set/remove calls per behaviour of SpecSingle
MaxSessions == 3        \* KvStore::open calls per behaviour of SpecSingle
MaxEntries == 2         \* entries of the directory that is listed
MaxNameLen == 3         \* pieces of a file name
MaxReqs   == 2          \* requests served per behaviour
MaxStarts == 2          \* server starts per behaviour
Threads   == 2          \* the `threads` argument of ThreadPool::new
MaxJobs   == 3          \* jobs handed to each pool

Conns   == {1, 2}                   \* connections the listener yields
Jobs    == 1..MaxJobs
Engines == {"kvs", "sled"}          \* the arms of main's match
EngineArgs == Engines \cup {"other"} \* values of --engine
NoFile  == "<absent>"

----------------------------------------------------------------------------
(* Record layout and the codec *)

COMPACTION_THRESHOLD_BYTES == 1048576

\* | timestamp | key_sz | value_sz | : three 8-byte fields
HeaderLen == 8 + 8 + 8

\* byte length of the value "E": its record has COMPACTION_THRESHOLD_BYTES bytes
ExactLen == COMPACTION_THRESHOLD_BYTES - HeaderLen - KeyLen

ValLen(v) == CASE v = ""  -> 0
               [] v = "s" -> SmallLen
               [] v = "E" -> ExactLen
               [] v = "H" -> HugeLen

\* size of the record append_entry writes: header, key bytes, value bytes
EntrySize(key, value) == HeaderLen + KeyLen + ValLen(value)

NoPos == [file_id |-> 0, pos |-> 0, sz |-> 0, timestamp |-> -1]

\* Entry::new
NewEntry(key, value) == [key |-> key, value |-> value, timestamp |-> clock]

\* what is on disk for one complete record, n bytes long
OnDisk(e) == [key |-> e.key, value |-> e.value, timestamp |-> e.timestamp,
              n |-> EntrySize(e.key, e.value), full |-> TRUE]

\* the first n bytes of a record whose append was cut short
Torn(n) == [key |-> 0, value |-> "", timestamp |-> -1, n |-> n, full |-> FALSE]

Complete(d) == d.full

RECURSIVE ByteLen(_)
ByteLen(content) ==
    IF content = <<>> THEN 0
    ELSE content[Len(content)].n + ByteLen(SubSeq(content, 1, Len(content) - 1))

\* byte offset of the i-th record of a file
Offset(content, i) == ByteLen(SubSeq(content, 1, i - 1))

----------------------------------------------------------------------------
(* Reading a record at a byte offset of a file *)

OkRead(d)    == [kind |-> "Ok", key |-> d.key, value |-> d.value, timestamp |-> d.timestamp]
ErrRead(why) == [kind |-> why, key |-> 0, value |-> "", timestamp |-> -1]

\* What a read that starts inside a record can decode: the header is made of
\* bytes of another record, so the read fails or yields a record that is
\* none of the written ones (its timestamp is taken to match no locator).
Garbage == [kind |-> "Ok", key |-> 0, value |-> "?", timestamp |-> -2]

\* read_entry at offset pos: the set of possible outcomes.  A record that
\* starts at pos and is complete is decoded; a cut record or an offset at or
\* past the end of the file makes read_exact fail.
ReadEntry(content, pos) ==
    LET hit == {i \in 1..Len(content) : Offset(content, i) = pos} IN
    IF hit # {}
    THEN LET i == CHOOSE j \in hit : TRUE IN
         IF Complete(content[i]) THEN {OkRead(content[i])} ELSE {ErrRead("Eof")}
    ELSE IF pos >= ByteLen(content)
    THEN {ErrRead("Eof")}
    ELSE {ErrRead("Eof"), ErrRead("Utf8"), Garbage}

\* a writer at offset 0 of the file: the record replaces what was there
AppendContentOverwrite(content, e) == <<OnDisk(e)>>

\* append_entry(writer, file_id, e): the record goes to the end of the file
\* behind `writer` (opened with append, at SeekFrom::End(0)); the locator
\* carries the file_id argument.
AppendContent(content, e) == Append(content, OnDisk(e))

AppendPos(content, file_id, e) ==
    [file_id |-> file_id, pos |-> ByteLen(content),
     sz |-> EntrySize(e.key, e.value), timestamp |-> e.timestamp]

----------------------------------------------------------------------------
(* The reader pool *)

\* a reader that keeps every cached handle
RemoveRedundancyNone(cache, last) == cache

\* remove_redundancy: drop the handles whose id is below last_id
RemoveRedundancy(cache, last) == {id \in cache : id >= last}

\* check_availability: a cached handle is used, otherwise the file is opened
Available(cache, d, p) == p.file_id \in cache \/ p.file_id \in d

CheckAvailability(cache, p) == cache \cup {p.file_id}

\* a read that takes the value's length from the wrong header field: the
\* bytes it returns are not the record's value
LocateValueSwapped(o) == IF o.kind = "Ok" THEN "?" ELSE o.value

\* locate_value: header, skip the key, read the value
LocateValueField(o) == o.value

LocateValue(content, pos) ==
    {[kind |-> o.kind, value |-> LocateValueField(o), timestamp |-> o.timestamp] :
        o \in ReadEntry(content, pos)}

----------------------------------------------------------------------------
(* Results of the engine's operations *)

SomeR(v)  == [kind |-> "Some", value |-> v]
NoneR     == [kind |-> "None", value |-> ""]
ErrR(why) == [kind |-> "Err", value |-> why]

\* get: an empty value reads as "no value"
ValueResult(v) == IF v = "" THEN NoneR ELSE SomeR(v)

ReadResult(o) == IF o.kind = "Ok" THEN ValueResult(o.value) ELSE ErrR(o.kind)

\* the possible results of a get(k) made by a fresh clone (empty handle
\* cache) on the state (idx, d, fs)
GetOutcomes(idx, d, fs, k) ==
    IF idx[k] = NoPos THEN {NoneR}
    ELSE IF idx[k].file_id \notin d THEN {ErrR("NotFound")}
    ELSE {ReadResult(o) : o \in LocateValue(fs[idx[k].file_id], idx[k].pos)}

GetAll(idx, d, fs) == [k \in Keys |-> GetOutcomes(idx, d, fs, k)]

----------------------------------------------------------------------------
(* History kept to state the properties; no action's guard reads it *)

ExpectedAll(h) == [k \in Keys |-> {ValueResult(h.expected[k])}]

ReaderActive == rpc \in {"located", "evicted", "opened"}

\* a writer step seen from a get in flight: it was not alone, it overlapped
\* a compaction (comp), and a write to its key adds an admissible result
Seen(h, k, comp) ==
    IF ReaderActive
    THEN [h EXCEPT !.rquiet = FALSE,
                   !.rovl = @ \/ comp,
                   !.rallowed = IF k = rkey
                                THEN @ \cup {ValueResult(h.expected[k])}
                                ELSE @]
    ELSE h

Called(h, op, k) ==
    [h EXCEPT !.lastW = [op |-> op, key |-> k, res |-> "Pending", idx |-> index,
                         live |-> h.expected[k] # ""],
              !.fresh = FALSE,
              !.justCompacted = FALSE,
              !.survivor[k] = FALSE]

Returned(h, res) ==
    [h EXCEPT !.lastW.res = res,
              !.acked = IF res = "Ok" THEN h.expected ELSE @]

Wrote(h, k, v) == [h EXCEPT !.expected[k] = v]

\* the bytes the operation turns stale: the locator it displaces and, for a
\* remove, the tombstone it appends; and whether k was set to ""
Accounted(h, op, k, v) ==
    [h EXCEPT !.staleSum = @ + (IF index[k] # NoPos THEN index[k].sz ELSE 0)
                             + (IF op = "remove" THEN EntrySize(k, "") ELSE 0),
              !.emptied[k] = (op = "set" /\ v = "")]

\* segment files were created
Created(h, ids) == [h EXCEPT !.everIds = @ \cup ids]

\* an I/O error was injected
Faulted(h) == [h EXCEPT !.faulty = TRUE]

\* a compaction has run to its end: the keys with a live value survive it
Compacted(h) ==
    [h EXCEPT !.justCompacted = TRUE,
              !.staleSum = 0,
              !.survivor = [k \in Keys |-> h.expected[k] # ""]]

----------------------------------------------------------------------------
(* Initial state: KvStore::open on an empty directory; no server start, no *)
(* connection and no job yet; ThreadPool::new(Threads) has returned        *)

ServerInit ==
    /\ kv = [k \in Keys |-> ""]
    /\ cstate = [c \in Conns |-> "waiting"]
    /\ sent = [c \in Conns |-> <<>>]
    /\ reqlog = [c \in Conns |-> <<>>]

IdentInit ==
    /\ identity = NoFile
    /\ starts = 0
    /\ serving = FALSE
    /\ boot = [engine |-> "", code |-> 0, opened |-> FALSE, before |-> NoFile,
               first |-> "", firstKnown |-> ""]

\* `threads` workers run run_tasks, each blocked in recv on the empty channel
PoolInit ==
    /\ queue = <<>>
    /\ receiving = Threads
    /\ unwinding = 0
    /\ jstate = [j \in Jobs |-> "new"]
    /\ runs = [j \in Jobs |-> 0]
    /\ rwait = 0
    /\ rstate = [j \in Jobs |-> "new"]
    /\ sender = TRUE
    /\ printing = 0

ListInit ==
    /\ entries = {}
    /\ listed = FALSE
    /\ id_list = <<>>

NoPos1 == [pos |-> 0, sz |-> 0, timestamp |-> -1]

EmptyIndex1 == [k \in Keys |-> NoPos1]

SingleInit ==
    /\ up1 = TRUE
    /\ clock1 = 0
    /\ names1 = {"data"}
    /\ data = <<>>
    /\ backup = <<>>
    /\ hint = EmptyIndex1
    /\ index1 = EmptyIndex1
    /\ current_file = "data"
    /\ uncompacted_bytes1 = 0
    /\ pc1 = "idle"
    /\ in_drop = FALSE
    /\ todo1 = {}
    /\ removed_key = {}
    /\ ops1 = 0
    /\ sessions1 = 1
    /\ hist1 = [pre |-> [k \in Keys |-> NoneR], just |-> FALSE, fresh |-> TRUE,
                hinted |-> FALSE]

Init ==
    /\ ServerInit /\ IdentInit /\ PoolInit /\ ListInit /\ SingleInit
    /\ up = TRUE
    /\ clock = 0
    /\ dir = {1}
    /\ files = [id \in Ids |-> <<>>]
    /\ index = [k \in Keys |-> NoPos]
    /\ current_id = 1
    /\ uncompacted_bytes = 0
    /\ last_id = 0
    /\ wreaders = {}
    /\ wpc = "idle"
    /\ compact_id = 0
    /\ cursor = 0
    /\ rpc = "idle"
    /\ rkey = 0
    /\ rp = NoPos
    /\ readers = {}
    /\ rres = NoneR
    /\ ops = 0
    /\ downs = 0
    /\ hist = [expected |-> [k \in Keys |-> ""],
               acked |-> [k \in Keys |-> ""],
               lastW |-> [op |-> "none", key |-> 0, res |-> "Ok",
                          idx |-> [k \in Keys |-> NoPos], live |-> FALSE],
               preCompact |-> [k \in Keys |-> {NoneR}],
               preDown |-> [k \in Keys |-> {NoneR}],
               downKind |-> "none",
               fresh |-> FALSE,
               faulty |-> FALSE,
               rquiet |-> TRUE,
               rovl |-> FALSE,
               rafter |-> FALSE,
               rallowed |-> {},
               justCompacted |-> FALSE,
               staleSum |-> 0,
               preUb |-> 0,
               revict |-> 0,
               rold |-> {},
               ropened |-> FALSE,
               emptied |-> [k \in Keys |-> FALSE],
               everIds |-> {1},
               atOpen |-> {},
               survivor |-> [k \in Keys |-> FALSE]]

----------------------------------------------------------------------------
(* The writer: DataWriter::set, DataWriter::remove *)

\* the stale bytes a displaced locator accounts for
Displaced(k) == IF index[k] # NoPos THEN index[k].sz ELSE 0

\* a test that also fires at the threshold itself
OverThresholdInclusive(ub) == ub >= COMPACTION_THRESHOLD_BYTES

\* self.uncompacted_bytes > COMPACTION_THRESHOLD_BYTES
OverThreshold(ub) == ub > COMPACTION_THRESHOLD_BYTES

\* what set adds to uncompacted_bytes
SetStale(k, p) == Displaced(k)

\* a remove that leaves its tombstone out of the account
RemoveStaleNoTombstone(k, p) == Displaced(k)

\* what remove adds to uncompacted_bytes
RemoveStale(k, p) == p.sz + Displaced(k)

\* the index entry a mutation of key k leaves
Inserted(k, p) == [index EXCEPT ![k] = p]

\* the record is appended to the active segment, the index is updated, the
\* displaced bytes are accounted; over the threshold, compact() follows
Mutate(op, k, v, max) ==
    LET e  == NewEntry(k, v)
        p  == AppendPos(files[current_id], current_id, e)
        ub == uncompacted_bytes +
                  (IF op = "set" THEN SetStale(k, p) ELSE RemoveStale(k, p))
        go == OverThreshold(ub)
        h1 == Accounted(Wrote(Called(hist, op, k), k, v), op, k, v)
        h2 == Seen(h1, k, FALSE)
    IN  /\ up /\ wpc = "idle" /\ ops < max
        /\ go => current_id + 2 <= MaxId
        /\ files' = [files EXCEPT ![current_id] = AppendContent(@, e)]
        /\ index' = Inserted(k, p)
        /\ uncompacted_bytes' = ub
        /\ wpc' = IF go THEN "compact" ELSE "idle"
        /\ hist' = IF go
                   THEN [h2 EXCEPT !.preCompact =
                            GetAll(Inserted(k, p), dir,
                                   [files EXCEPT ![current_id] = AppendContent(@, e)])]
                   ELSE Returned(h2, "Ok")
        /\ ops' = ops + 1
        /\ UNCHANGED <<sideVars, up, clock, dir, current_id, last_id, wreaders, compact_id,
                       cursor, readerVars, downs>>

Set(k, v, max) == Mutate("set", k, v, max)

\* remove of a key the index holds
RemovePresent(k) == index[k] # NoPos

Remove(k, max) ==
    /\ RemovePresent(k)
    /\ Mutate("remove", k, "", max)

RemoveNonexistent(k, max) ==
    /\ up /\ wpc = "idle" /\ ops < max
    /\ ~RemovePresent(k)
    /\ hist' = Returned(Called(hist, "remove", k), "NonexistentKey")
    /\ ops' = ops + 1
    /\ UNCHANGED <<sideVars, up, clock, diskVars, index, last_id, writerVars, readerVars, downs>>

\* append_entry fails (an I/O error of the active segment) before a byte of
\* the record reaches the file: `?` returns the error at once
AppendFails(op, k, max) ==
    /\ up /\ wpc = "idle" /\ ops < max
    /\ op = "remove" => RemovePresent(k)
    /\ hist' = Faulted(Returned(Called(hist, op, k), "Err"))
    /\ ops' = ops + 1
    /\ UNCHANGED <<sideVars, up, clock, diskVars, index, last_id, writerVars, readerVars, downs>>

----------------------------------------------------------------------------
(* The writer: DataWriter::compact, one step per effect another thread or  *)
(* a crash can observe                                                     *)

\* current_id left as it is
AdvanceIdSkipped(id) == id

\* self.current_id += 2
AdvanceId(id) == id + 2

\* the id a compaction leaves unpublished (last_id keeps its value)
LastIdStoreSkipped(id) == last_id

\* self.reader.last_id.store(self.current_id, SeqCst)
LastIdStore(id) == id

\* compact_id = current_id + 1; current_id += 2; both files are created and
\* current_id is published as last_id
CompactBegin ==
    /\ up /\ wpc = "compact"
    /\ compact_id' = current_id + 1
    /\ current_id' = AdvanceId(current_id)
    /\ dir' = dir \cup {current_id + 1, AdvanceId(current_id)}
    /\ last_id' = LastIdStore(AdvanceId(current_id))
    /\ cursor' = 0
    /\ wpc' = "rewrite"
    /\ hist' = Created(Seen(hist, 0, TRUE), {current_id + 1, AdvanceId(current_id)})
    /\ UNCHANGED <<sideVars, up, clock, files, index, uncompacted_bytes, wreaders,
                   readerVars, ops, downs>>

\* the writer holding the handle of the active segment only
WritableHandlesActiveOnly == IF up THEN {current_id} ELSE {}

\* the segments a handle is open on for writing: self.writer on the active
\* segment, and from the first step of compact() until it returns (with Ok
\* or through `?`) also the local compact_writer on data-<compact_id>
WritableHandles ==
    IF ~up THEN {}
    ELSE IF wpc = "rewrite" THEN {current_id, compact_id}
    ELSE {current_id}

\* index.iter(): the keys of the index in ascending order, each once
Pending == {k \in Keys : index[k] # NoPos /\ k > cursor}

NextKey == CHOOSE k \in Pending : \A j \in Pending : k <= j

\* the file id compact() hands to append_entry for a rewritten record
RewriteFileId == current_id

\* no record is taken for a tombstone
TombstoneNever(e) == FALSE

\* e.value.is_empty()
Tombstone(e) == e.value = ""

\* the record is live when the locator's timestamp is the record's
Superseded(p, e) == p.timestamp # e.timestamp

\* one iteration of the loop over the index
CompactRewrite ==
    /\ up /\ wpc = "rewrite" /\ Pending # {}
    /\ LET k     == NextKey
           p     == index[k]
           cache == RemoveRedundancy(wreaders, last_id)
       IN  IF ~Available(cache, dir, p)
           THEN \* locate_entry fails to open the file: compact()? returns Err
                /\ wreaders' = cache
                /\ wpc' = "idle"
                /\ hist' = Returned(Seen(hist, 0, TRUE), "Err")
                /\ UNCHANGED <<files, index, cursor>>
           ELSE \E o \in ReadEntry(files[p.file_id], p.pos) :
                /\ wreaders' = CheckAvailability(cache, p)
                /\ IF o.kind # "Ok"
                   THEN /\ wpc' = "idle"
                        /\ hist' = Returned(Seen(hist, 0, TRUE), "Err")
                        /\ UNCHANGED <<files, index, cursor>>
                   ELSE /\ wpc' = "rewrite"
                        /\ cursor' = k
                        /\ hist' = Seen(hist, 0, TRUE)
                        /\ IF Superseded(p, o)
                           THEN UNCHANGED <<files, index>>
                           ELSE IF Tombstone(o)
                           THEN /\ index' = [index EXCEPT ![k] = NoPos]
                                /\ UNCHANGED files
                           ELSE /\ index' = [index EXCEPT ![k] =
                                       AppendPos(files[compact_id], RewriteFileId, o)]
                                /\ files' = [files EXCEPT ![compact_id] =
                                       AppendContent(@, o)]
    /\ UNCHANGED <<sideVars, up, clock, dir, current_id, uncompacted_bytes, last_id,
                   compact_id, readerVars, ops, downs>>

\* an I/O error inside the loop or the deletions (a read of a segment, the
\* append to the compact segment, remove_file): `?` leaves compact() and the
\* set or remove that called it with the error
CompactFails ==
    /\ up /\ wpc = "rewrite"
    /\ wpc' = "idle"
    /\ hist' = Faulted(Returned(Seen(hist, 0, TRUE), "Err"))
    /\ UNCHANGED <<sideVars, up, clock, diskVars, index, current_id, uncompacted_bytes,
                   last_id, wreaders, compact_id, cursor, readerVars, ops, downs>>

\* sorted_file_id_list(dir) filtered by x < compact_id
OldSegments == {x \in dir : x < compact_id}

\* remove_file of the next old segment, in ascending id order
CompactDelete ==
    /\ up /\ wpc = "rewrite" /\ Pending = {} /\ OldSegments # {}
    /\ LET x == CHOOSE y \in OldSegments : \A z \in OldSegments : y <= z
       IN  dir' = dir \ {x}
    /\ hist' = Seen(hist, 0, TRUE)
    /\ UNCHANGED <<sideVars, up, clock, files, index, last_id, writerVars, readerVars, ops, downs>>

\* uncompacted_bytes = 0; Ok(()) is returned to set/remove and to its caller
CompactEnd ==
    /\ up /\ wpc = "rewrite" /\ Pending = {} /\ OldSegments = {}
    /\ uncompacted_bytes' = 0
    /\ wpc' = "idle"
    /\ hist' = Compacted(Returned(Seen(hist, 0, TRUE), "Ok"))
    /\ UNCHANGED <<sideVars, up, clock, diskVars, index, current_id, last_id, wreaders,
                   compact_id, cursor, readerVars, ops, downs>>

----------------------------------------------------------------------------
(* get on a clone of the engine, run by a reader thread: the index lookup  *)
(* of the facade, then DataReader::locate_value step by step               *)

ReaderAtRest == rpc = "idle"

GetBegun(h, k) ==
    [h EXCEPT !.rquiet = TRUE,
              !.rovl = wpc # "idle",
              !.rafter = wpc = "idle",
              !.rallowed = {ValueResult(h.acked[k]), ValueResult(h.expected[k])}]

\* the read evicts: the last_id it loads and the handles it finds cached
Evicting(h) == [h EXCEPT !.revict = last_id, !.rold = readers, !.ropened = FALSE]

\* the read has a handle of the segment: one it opened now, or a cached one
Looked(h, fresh) == [h EXCEPT !.ropened = fresh]

\* the read is over
ReadOver(h) == [h EXCEPT !.revict = 0, !.rold = {}, !.ropened = FALSE]

\* index.get(&key): None when the key is absent, else the locator is held
GetStart(k) ==
    /\ up /\ ReaderAtRest
    /\ rkey' = k
    /\ IF index[k] = NoPos
       THEN rpc' = "done" /\ rres' = NoneR /\ rp' = NoPos
       ELSE rpc' = "located" /\ rp' = index[k] /\ rres' = rres
    /\ hist' = GetBegun(hist, k)
    /\ UNCHANGED <<sideVars, up, clock, diskVars, index, last_id, writerVars, readers, ops, downs>>

\* remove_redundancy with the last_id loaded now
GetEvict ==
    /\ up /\ rpc = "located"
    /\ readers' = RemoveRedundancy(readers, last_id)
    /\ rpc' = "evicted"
    /\ hist' = Evicting(hist)
    /\ UNCHANGED <<sideVars, up, clock, diskVars, index, last_id, writerVars, rkey, rp, rres,
                   ops, downs>>

\* check_availability: File::open of a segment that is not cached
GetOpen ==
    /\ up /\ rpc = "evicted"
    /\ IF Available(readers, dir, rp)
       THEN /\ readers' = CheckAvailability(readers, rp)
            /\ rpc' = "opened"
            /\ hist' = Looked(hist, rp.file_id \notin readers)
            /\ UNCHANGED <<rp, rres>>
       ELSE /\ rres' = ErrR("NotFound")
            /\ rpc' = "done"
            /\ rp' = NoPos
            /\ hist' = ReadOver(hist)
            /\ UNCHANGED readers
    /\ UNCHANGED <<sideVars, up, clock, diskVars, index, last_id, writerVars, rkey, ops, downs>>

\* seek to the locator's offset, read the header, skip the key, read the value
GetRead ==
    /\ up /\ rpc = "opened"
    /\ \E o \in LocateValue(files[rp.file_id], rp.pos) : rres' = ReadResult(o)
    /\ rpc' = "done"
    /\ rp' = NoPos
    /\ hist' = ReadOver(hist)
    /\ UNCHANGED <<sideVars, up, clock, diskVars, index, last_id, writerVars, rkey, readers,
                   ops, downs>>

\* the result is handed to the caller of get
GetReturn ==
    /\ up /\ rpc = "done"
    /\ rpc' = "idle"
    /\ rkey' = 0
    /\ rres' = NoneR
    /\ hist' = [hist EXCEPT !.rquiet = TRUE, !.rovl = FALSE, !.rafter = FALSE,
                            !.rallowed = {}]
    /\ UNCHANGED <<sideVars, up, clock, diskVars, index, last_id, writerVars, rp, readers,
                   ops, downs>>

----------------------------------------------------------------------------
(* The clock *)

Tick ==
    /\ up /\ wpc = "idle" /\ clock < MaxClock
    /\ clock' = clock + 1
    /\ UNCHANGED <<sideVars, up, diskVars, index, last_id, writerVars, readerVars, ops, downs, hist>>

----------------------------------------------------------------------------
(* Process exit and crash: the directory stays, the memory is gone *)

Halt(kind, fs) ==
    /\ up /\ downs < MaxDowns
    /\ up' = FALSE
    /\ downs' = downs + 1
    /\ files' = fs
    /\ index' = [k \in Keys |-> NoPos]
    /\ current_id' = 0
    /\ uncompacted_bytes' = 0
    /\ last_id' = 0
    /\ wreaders' = {}
    /\ wpc' = "idle"
    /\ compact_id' = 0
    /\ cursor' = 0
    /\ rpc' = "idle"
    /\ rkey' = 0
    /\ rp' = NoPos
    /\ readers' = {}
    /\ rres' = NoneR
    /\ hist' = [hist EXCEPT !.downKind = kind,
                            !.preUb = IF kind = "clean" THEN uncompacted_bytes ELSE 0,
                            !.preDown = GetAll(index, dir, files),
                            !.fresh = FALSE,
                            !.justCompacted = FALSE,
                            !.survivor = [k \in Keys |-> FALSE],
                            !.staleSum = 0,
                            !.revict = 0,
                            !.rold = {},
                            !.ropened = FALSE,
                            !.emptied = [k \in Keys |-> FALSE]]
    /\ UNCHANGED <<sideVars, clock, dir, ops>>

\* a clean exit between operations: every append has reached its file
Close ==
    /\ wpc = "idle"
    /\ Halt("clean", files)

\* the byte counts at which a record of sz bytes is cut: inside the header
\* and one byte short of the end
CutPoints(sz) == {n \in {1, sz - 1} : 0 < n /\ n < sz}

\* the process dies inside the append of a set or remove: the last record
\* of the active segment is cut
CrashInAppend(k, v) ==
    /\ wpc = "idle"
    /\ v = "" => RemovePresent(k)
    /\ \E n \in CutPoints(EntrySize(k, v)) :
         Halt("cut", [files EXCEPT ![current_id] = Append(@, Torn(n))])

\* the process dies inside a set or remove that is over the threshold: right
\* before compact(), or inside it between two of its steps
CrashInCompact ==
    /\ wpc # "idle"
    /\ Halt(IF wpc = "rewrite" THEN "compact" ELSE "precompact", files)

\* the process dies inside compact() while a live record is being appended to
\* the compact segment
CrashInRewrite ==
    /\ wpc = "rewrite" /\ Pending # {}
    /\ LET p == index[NextKey] IN
       /\ p.file_id \in dir
       /\ \E o \in ReadEntry(files[p.file_id], p.pos) :
            /\ o.kind = "Ok" /\ ~Superseded(p, o) /\ o.value # ""
            /\ \E n \in CutPoints(EntrySize(o.key, o.value)) :
                 Halt("compact", [files EXCEPT ![compact_id] = Append(@, Torn(n))])

----------------------------------------------------------------------------
(* Recovery: KvStore::open over an existing directory *)

\* generate_index: records are read from offset 0 while read_entry succeeds;
\* each one displaces the key's previous locator
RECURSIVE GenerateIndex(_, _, _, _)
GenerateIndex(content, file_id, i, acc) ==
    IF i > Len(content) \/ ~Complete(content[i])
    THEN acc
    ELSE LET d   == content[i]
             old == acc.index[d.key]
             p   == [file_id |-> file_id, pos |-> Offset(content, i),
                     sz |-> d.n, timestamp |-> d.timestamp]
         IN  GenerateIndex(content, file_id, i + 1,
                 [index |-> [acc.index EXCEPT ![d.key] = p],
                  stale |-> acc.stale + (IF old # NoPos THEN old.sz ELSE 0)])

\* the ids of the directory, visited in the order open() visits them
ScanNext(todo) == CHOOSE x \in todo : \A y \in todo : x <= y

RECURSIVE ScanAll(_, _, _)
ScanAll(todo, fs, acc) ==
    IF todo = {} THEN acc
    ELSE LET id == ScanNext(todo)
         IN  ScanAll(todo \ {id}, fs, GenerateIndex(fs[id], id, 1, acc))

MaxOf(S) == CHOOSE x \in S : \A y \in S : y <= x

\* current_id is 1 for an empty directory, else max(ids) + 1
OpenId(d) == IF d = {} THEN 1 ELSE MaxOf(d) + 1

Open ==
    /\ ~up
    /\ OpenId(dir) <= MaxId
    /\ LET r == ScanAll(dir, files, [index |-> [k \in Keys |-> NoPos], stale |-> 0])
       IN  /\ index' = r.index
           /\ uncompacted_bytes' = r.stale
    /\ current_id' = OpenId(dir)
    /\ dir' = dir \cup {OpenId(dir)}
    /\ up' = TRUE
    /\ hist' = Created([hist EXCEPT !.fresh = TRUE,
                                    !.atOpen = dir,
                                    !.staleSum = ScanAll(dir, files,
                                        [index |-> [k \in Keys |-> NoPos],
                                         stale |-> 0]).stale],
                       {OpenId(dir)})
    /\ UNCHANGED <<sideVars, clock, files, last_id, wreaders, wpc, compact_id, cursor,
                   readerVars, ops, downs>>

----------------------------------------------------------------------------
(* Specifications *)

Writer(max) ==
    \/ \E k \in OpKeys, v \in Values : Set(k, v, max)
    \/ \E k \in OpKeys : Remove(k, max)
    \/ \E k \in OpKeys : RemoveNonexistent(k, max)
    \/ \E k \in OpKeys, op \in {"set", "remove"} : AppendFails(op, k, max)
    \/ CompactBegin
    \/ CompactRewrite
    \/ CompactFails
    \/ CompactDelete
    \/ CompactEnd

Reader ==
    \/ GetEvict
    \/ GetOpen
    \/ GetRead
    \/ GetReturn

Down ==
    \/ Close
    \/ \E k \in OpKeys, v \in Values \cup {""} : CrashInAppend(k, v)
    \/ CrashInCompact
    \/ CrashInRewrite

\* one thread of control: each get runs to its end between two operations
\* of the writer
Next ==
    \/ \E k \in OpKeys : wpc = "idle" /\ GetStart(k)
    \/ Reader
    \/ ReaderAtRest /\ Writer(MaxOps)
    \/ ReaderAtRest /\ Tick

Spec == Init /\ [][Next]_vars

\* a reader thread runs get on its clone while the writer thread runs set,
\* remove and the compaction inside them
NextConc ==
    \/ \E k \in OpKeys : GetStart(k)
    \/ Reader
    \/ Writer(MaxOpsConc)
    \/ Tick

SpecConc == Init /\ [][NextConc]_vars

\* operations, process exits and crashes at any step, and recovery
NextCrash ==
    \/ Writer(MaxOps)
    \/ Down
    \/ Open
    \/ Tick

SpecCrash == Init /\ [][NextCrash]_vars

\* one thread of control calling set with values around the threshold and
\* with the empty value, and remove; no I/O error
NextEdge ==
    \/ \E k \in OpKeys, v \in EdgeValues : Set(k, v, MaxOpsEdge)
    \/ \E k \in OpKeys : Remove(k, MaxOpsEdge)
    \/ \E k \in OpKeys : RemoveNonexistent(k, MaxOpsEdge)
    \/ CompactBegin
    \/ CompactRewrite
    \/ CompactDelete
    \/ CompactEnd

SpecEdge == Init /\ [][NextEdge]_vars

\* set and remove with small values (no compaction), a clean exit and a reopen
NextReopen ==
    \/ \E k \in OpKeys : Set(k, "s", MaxOpsReopen)
    \/ \E k \in OpKeys : Remove(k, MaxOpsReopen)
    \/ \E k \in OpKeys : RemoveNonexistent(k, MaxOpsReopen)
    \/ Close
    \/ Open
    \/ Tick

SpecReopen == Init /\ [][NextReopen]_vars

\* one thread of control calling set, with the empty value too, and remove
\* on the whole key space, and get on the keys last set to ""; no I/O error
NextEmpty ==
    \/ \E k \in Keys : wpc = "idle" /\ hist.emptied[k] /\ GetStart(k)
    \/ Reader
    \/ ReaderAtRest /\ \E k \in Keys, v \in EmptyValues : Set(k, v, MaxOpsEmpty)
    \/ ReaderAtRest /\ \E k \in Keys : Remove(k, MaxOpsEmpty)
    \/ ReaderAtRest /\ CompactBegin
    \/ ReaderAtRest /\ CompactRewrite
    \/ ReaderAtRest /\ CompactDelete
    \/ ReaderAtRest /\ CompactEnd

SpecEmpty == Init /\ [][NextEmpty]_vars

----------------------------------------------------------------------------
(* Server start: main and identify_engine *)

\* identify_engine without the comparison: any identity file is accepted
IdentifyEngineUnchecked(id, current) ==
    [exit |-> FALSE, identity |-> IF id # NoFile THEN id ELSE current]

\* identify_engine(path, current): the identity file is read and compared,
\* or created with the bytes of `current`; exit(1) on a different content
IdentifyEngine(id, current) ==
    IF id # NoFile
    THEN IF id # current
         THEN [exit |-> TRUE, identity |-> id]
         ELSE [exit |-> FALSE, identity |-> id]
    ELSE [exit |-> FALSE, identity |-> current]

\* main: the match on the engine name; an arm of a known engine calls
\* identify_engine, opens the store and runs the server
Start(e) ==
    /\ ~serving /\ starts < MaxStarts
    /\ starts' = starts + 1
    /\ LET r == IF e \in Engines THEN IdentifyEngine(identity, e)
                ELSE [exit |-> TRUE, identity |-> identity]
       IN  /\ identity' = r.identity
           /\ serving' = ~r.exit
           /\ boot' = [engine |-> e,
                       code |-> IF r.exit THEN 1 ELSE 0,
                       opened |-> ~r.exit,
                       before |-> identity,
                       first |-> IF boot.first = "" THEN e ELSE boot.first,
                       firstKnown |-> IF boot.firstKnown = "" /\ e \in Engines
                                      THEN e ELSE boot.firstKnown]
    /\ UNCHANGED <<storeVars, listVars, dropVars, singleVars, serverVars, poolVars>>

\* the server process is ended from outside; its connections are gone
Kill ==
    /\ serving
    /\ serving' = FALSE
    /\ cstate' = [c \in Conns |-> IF cstate[c] = "open" THEN "killed" ELSE cstate[c]]
    /\ UNCHANGED <<storeVars, listVars, dropVars, singleVars, kv, sent, reqlog, identity, starts, boot, poolVars>>

----------------------------------------------------------------------------
(* The server: KvsServer::run and process(), over an engine behind the     *)
(* KvsEngine trait                                                         *)

KeyNotFound == "Key not found"

Requests ==
    [op : {"set"}, key : OpKeys, value : Values]
        \cup [op : {"get", "remove"}, key : OpKeys, value : {""}]

\* KvsEngine::set: Ok(()) with the key set, or an error
EngineSet(k, v) ==
    {[res |-> "Ok", value |-> "", kv |-> [kv EXCEPT ![k] = v]],
     [res |-> "Err", value |-> "", kv |-> kv]}

\* KvsEngine::get: Ok(Some(value)), Ok(None) (value "") or an error
EngineGet(k) ==
    {[res |-> "Ok", value |-> kv[k], kv |-> kv],
     [res |-> "Err", value |-> "", kv |-> kv]}

\* KvsEngine::remove: Ok(()), Err(NonexistentKey) or another error
EngineRemove(k) ==
    IF kv[k] = ""
    THEN {[res |-> "NonexistentKey", value |-> "", kv |-> kv]}
    ELSE {[res |-> "Ok", value |-> "", kv |-> [kv EXCEPT ![k] = ""]],
          [res |-> "Err", value |-> "", kv |-> kv]}

Engine(req) ==
    CASE req.op = "set"    -> EngineSet(req.key, req.value)
      [] req.op = "get"    -> EngineGet(req.key)
      [] req.op = "remove" -> EngineRemove(req.key)

\* the arms of the match in process(): the status string to send, or the
\* error `?` returns from process()
Respond(status) == [go |-> TRUE, status |-> status]
Propagate       == [go |-> FALSE, status |-> ""]

SetArm(o) == IF o.res # "Ok" THEN Propagate ELSE Respond("")

GetArm(o) ==
    IF o.res # "Ok" THEN Propagate
    ELSE Respond(IF o.value = "" THEN KeyNotFound ELSE o.value)

RemoveArm(o) == IF o.res # "Ok" THEN Respond(KeyNotFound) ELSE Respond("")

Arm(req, o) ==
    CASE req.op = "set"    -> SetArm(o)
      [] req.op = "get"    -> GetArm(o)
      [] req.op = "remove" -> RemoveArm(o)

\* listener.incoming() yields the next stream: process() is spawned on it
Accept(c) ==
    /\ serving /\ cstate[c] = "waiting"
    /\ \A d \in Conns : d < c => cstate[d] # "waiting"
    /\ cstate' = [cstate EXCEPT ![c] = "open"]
    /\ UNCHANGED <<storeVars, listVars, dropVars, singleVars, kv, sent, reqlog, identVars, poolVars>>

\* listener.incoming() yields an error: it is logged
AcceptFails(c) ==
    /\ serving /\ cstate[c] = "waiting"
    /\ \A d \in Conns : d < c => cstate[d] # "waiting"
    /\ cstate' = [cstate EXCEPT ![c] = "refused"]
    /\ UNCHANGED <<storeVars, listVars, dropVars, singleVars, kv, sent, reqlog, identVars, poolVars>>

\* the requests served so far, over all connections
RECURSIVE Served(_)
Served(cs) ==
    IF cs = {} THEN 0
    ELSE LET c == CHOOSE x \in cs : TRUE
         IN  Len(reqlog[c]) + Served(cs \ {c})

\* one iteration of the loop of process(): the request is deserialized, the
\* engine is called, the response is serialized and flushed (written says
\* whether to_writer and flush succeed)
Serve(c, req, written) ==
    /\ serving /\ cstate[c] = "open" /\ Served(Conns) < MaxReqs
    /\ \E o \in Engine(req) :
         LET r == Arm(req, o) IN
         /\ kv' = o.kv
         /\ reqlog' = [reqlog EXCEPT ![c] =
                Append(@, [req |-> req, res |-> o.res, held |-> kv[req.key]])]
         /\ IF ~r.go
            THEN /\ cstate' = [cstate EXCEPT ![c] = "engine error"]
                 /\ UNCHANGED sent
            ELSE IF written
            THEN /\ sent' = [sent EXCEPT ![c] = Append(@, r.status)]
                 /\ UNCHANGED cstate
            ELSE /\ cstate' = [cstate EXCEPT ![c] = "write error"]
                 /\ UNCHANGED sent
    /\ UNCHANGED <<storeVars, listVars, dropVars, singleVars, identVars, poolVars>>

\* the iterator of requests ends: process() returns Ok(())
EndOfStream(c) ==
    /\ serving /\ cstate[c] = "open"
    /\ cstate' = [cstate EXCEPT ![c] = "eof"]
    /\ UNCHANGED <<storeVars, listVars, dropVars, singleVars, kv, sent, reqlog, identVars, poolVars>>

\* the next item does not deserialize to a Request: `request?` returns
BadRequest(c) ==
    /\ serving /\ cstate[c] = "open"
    /\ cstate' = [cstate EXCEPT ![c] = "bad request"]
    /\ UNCHANGED <<storeVars, listVars, dropVars, singleVars, kv, sent, reqlog, identVars, poolVars>>

NextServer ==
    \/ \E e \in EngineArgs : Start(e)
    \/ Kill
    \/ \E c \in Conns : Accept(c)
    \/ \E c \in Conns : AcceptFails(c)
    \/ \E c \in Conns, req \in Requests, written \in BOOLEAN : Serve(c, req, written)
    \/ \E c \in Conns : EndOfStream(c)
    \/ \E c \in Conns : BadRequest(c)

SpecServer == Init /\ [][NextServer]_vars

----------------------------------------------------------------------------
(* SharedQueueThreadPool: spawn, run_tasks and Drop for Worker *)

\* the jobs a worker is inside of
Running == {j \in Jobs : jstate[j] = "running"}

\* spawn: the boxed job is sent on the unbounded channel; send does not wait
Spawn(j) ==
    /\ sender
    /\ jstate[j] = "new"
    /\ \A i \in Jobs : i < j => jstate[i] # "new"
    /\ queue' = Append(queue, j)
    /\ jstate' = [jstate EXCEPT ![j] = "queued"]
    /\ UNCHANGED <<storeVars, listVars, dropVars, singleVars, serverVars, identVars, receiving, unwinding, runs,
                   rwait, rstate>>

\* run_tasks: rx.recv() hands the oldest message to one worker, which calls
\* job()
Recv ==
    /\ receiving > 0 /\ queue # <<>>
    /\ queue' = Tail(queue)
    /\ receiving' = receiving - 1
    /\ jstate' = [jstate EXCEPT ![Head(queue)] = "running"]
    /\ runs' = [runs EXCEPT ![Head(queue)] = @ + 1]
    /\ UNCHANGED <<storeVars, listVars, dropVars, singleVars, serverVars, identVars, unwinding, rwait, rstate>>

\* job() returns: the worker's loop is back at rx.recv()
JobReturns(j) ==
    /\ jstate[j] = "running"
    /\ jstate' = [jstate EXCEPT ![j] = "done"]
    /\ receiving' = receiving + 1
    /\ UNCHANGED <<storeVars, listVars, dropVars, singleVars, serverVars, identVars, queue, unwinding, runs,
                   rwait, rstate>>

\* job() panics: the worker's thread unwinds out of run_tasks
JobPanics(j) ==
    /\ jstate[j] = "running"
    /\ jstate' = [jstate EXCEPT ![j] = "panicked"]
    /\ unwinding' = unwinding + 1
    /\ UNCHANGED <<storeVars, listVars, dropVars, singleVars, serverVars, identVars, queue, receiving, runs,
                   rwait, rstate>>

\* a Worker dropped without a thread being started
WorkerDropNoSpawn(n) == n

\* Drop for Worker with thread::panicking(): a thread that runs run_tasks on
\* a clone of rx is started; n is the number of threads in recv
WorkerDrop(n) == n + 1

\* the unwinding thread drops its Worker and ends
Unwind ==
    /\ unwinding > 0
    /\ unwinding' = unwinding - 1
    /\ receiving' = WorkerDrop(receiving)
    /\ UNCHANGED <<storeVars, listVars, dropVars, singleVars, serverVars, identVars, queue, jstate, runs,
                   rwait, rstate>>

\* the SharedQueueThreadPool is dropped: its Sender, the only one, is gone
DropPool ==
    /\ sender
    /\ sender' = FALSE
    /\ UNCHANGED <<storeVars, singleVars, listVars, serverVars, identVars, poolVars, printing>>

\* run_tasks: rx.recv() returns Err on the empty channel without a sender;
\* the worker is in the Err arm, inside the loop (the arm has no break)
RecvErr ==
    /\ ~sender /\ queue = <<>>
    /\ receiving - printing > 0
    /\ printing' = printing + 1
    /\ UNCHANGED <<storeVars, singleVars, listVars, serverVars, identVars, poolVars, sender>>

\* eprintln! has returned: the worker is at rx.recv() again
RunTasksLoop ==
    /\ printing > 0
    /\ printing' = printing - 1
    /\ UNCHANGED <<storeVars, singleVars, listVars, serverVars, identVars, poolVars, sender>>

----------------------------------------------------------------------------
(* RayonThreadPool: spawn is pool.install(|| job()) *)

\* install() is entered: the closure is handed to the pool, the caller is
\* inside install until the closure has returned
RayonSpawn(j) ==
    /\ rwait = 0 /\ rstate[j] = "new"
    /\ \A i \in Jobs : i < j => rstate[i] # "new"
    /\ rwait' = j
    /\ rstate' = [rstate EXCEPT ![j] = "queued"]
    /\ UNCHANGED <<storeVars, listVars, dropVars, singleVars, serverVars, identVars, queue, receiving, unwinding,
                   jstate, runs>>

\* a thread of the pool takes the closure and calls job()
RayonRun(j) ==
    /\ rstate[j] = "queued"
    /\ rstate' = [rstate EXCEPT ![j] = "running"]
    /\ UNCHANGED <<storeVars, listVars, dropVars, singleVars, serverVars, identVars, queue, receiving, unwinding,
                   jstate, runs, rwait>>

\* job() returns on the pool's thread
RayonJobReturns(j) ==
    /\ rstate[j] = "running"
    /\ rstate' = [rstate EXCEPT ![j] = "done"]
    /\ UNCHANGED <<storeVars, listVars, dropVars, singleVars, serverVars, identVars, queue, receiving, unwinding,
                   jstate, runs, rwait>>

\* install() returns to the caller of spawn
RayonSpawnReturns ==
    /\ rwait # 0 /\ rstate[rwait] = "done"
    /\ rwait' = 0
    /\ UNCHANGED <<storeVars, listVars, dropVars, singleVars, serverVars, identVars, queue, receiving, unwinding,
                   jstate, runs, rstate>>

NextPool ==
    \/ \E j \in Jobs : Spawn(j)
    \/ Recv
    \/ \E j \in Jobs : JobReturns(j)
    \/ \E j \in Jobs : JobPanics(j)
    \/ Unwind
    \/ \E j \in Jobs : RayonSpawn(j)
    \/ \E j \in Jobs : RayonRun(j)
    \/ \E j \in Jobs : RayonJobReturns(j)
    \/ RayonSpawnReturns
    \/ DropPool
    \/ RecvErr
    \/ RunTasksLoop

\* the threads of the shared-queue pool are scheduled, and a job that was
\* called comes to an end (it returns or it panics)
SpecPool ==
    /\ Init /\ [][NextPool]_vars
    /\ WF_vars(Recv)
    /\ WF_vars(Unwind)
    /\ WF_vars(\E j \in Jobs : JobReturns(j) \/ JobPanics(j))
    /\ WF_vars(RecvErr)
    /\ WF_vars(RunTasksLoop)

----------------------------------------------------------------------------
(* Listing the segment ids of a directory: sorted_file_id_list             *)

\* a file name is a sequence of pieces: the string "data-" or one character
Digits == {"0", "7", "8"}
Pieces == {"data-", "+", "i"} \cup Digits
Names  == UNION {[1..n -> Pieces] : n \in 1..MaxNameLen}

DigitVal(c) == CASE c = "0" -> 0 [] c = "7" -> 7 [] c = "8" -> 8

\* the number a sequence of digits denotes (with at most MaxNameLen digits
\* it is far below u64::MAX, above which parse fails)
RECURSIVE Value(_)
Value(ds) ==
    IF ds = <<>> THEN 0
    ELSE Value(SubSeq(ds, 1, Len(ds) - 1)) * 10 + DigitVal(ds[Len(ds)])

NoId == -1

\* s.trim_start_matches("data-"): the prefix is removed as often as it is there
RECURSIVE TrimStartMatches(_)
TrimStartMatches(s) ==
    IF s # <<>> /\ s[1] = "data-" THEN TrimStartMatches(Tail(s)) ELSE s

\* str::parse::<u64>: an optional "+", then one or more digits
ParseU64(s) ==
    LET ds == IF s # <<>> /\ s[1] = "+" THEN Tail(s) ELSE s IN
    IF ds = <<>> \/ \E i \in 1..Len(ds) : ds[i] \notin Digits
    THEN NoId
    ELSE Value(ds)

\* path.is_file()
IsFile(e) == e.file

\* read_dir in the order the file system gives the entries
RECURSIVE ReadDir(_)
ReadDir(d) ==
    IF d = {} THEN <<>>
    ELSE LET e == CHOOSE x \in d : TRUE IN <<e>> \o ReadDir(d \ {e})

RECURSIVE Collect(_)
Collect(es) ==
    IF es = <<>> THEN <<>>
    ELSE LET e  == Head(es)
             id == ParseU64(TrimStartMatches(e.name))
         IN  (IF IsFile(e) /\ id # NoId THEN <<id>> ELSE <<>>) \o Collect(Tail(es))

\* sorted_file_id_list(dir_path)
SortedFileIdList(d) == SortSeq(Collect(ReadDir(d)), LAMBDA a, b : a < b)

\* a file or a directory of that name is created
Touch(name, file) ==
    /\ Cardinality(entries) < MaxEntries
    /\ \A e \in entries : e.name # name
    /\ entries' = entries \cup {[name |-> name, file |-> file]}
    /\ listed' = FALSE
    /\ id_list' = <<>>
    /\ UNCHANGED <<storeVars, serverVars, identVars, poolVars, dropVars, singleVars>>

SortedFileIdListCall ==
    /\ ~listed
    /\ id_list' = SortedFileIdList(entries)
    /\ listed' = TRUE
    /\ UNCHANGED <<storeVars, serverVars, identVars, poolVars, dropVars, singleVars,
                   entries>>

NextList ==
    \/ \E name \in Names, file \in BOOLEAN : Touch(name, file)
    \/ SortedFileIdListCall

SpecList == Init /\ [][NextList]_vars

----------------------------------------------------------------------------
(* The single-file KvStore of engines/kvs.rs: one file `data` of JSON      *)
(* records, `data.backup` during compact(), the index saved in `hint` by   *)
(* drop                                                                    *)

\* the bytes of {"key":"","value":"","timestamp":} and of a one-digit timestamp
JsonOverhead == 34 + 1

\* the length of serde_json::to_writer(e)
JsonSize(k, v) == JsonOverhead + KeyLen + ValLen(v)

\* Entry::new and its bytes in the file
NewEntry1(k, v) == [key |-> k, value |-> v, timestamp |-> clock1, n |-> JsonSize(k, v)]

\* DataFile::append: the locator of a record appended to `content`
AppendPos1(content, e) == [pos |-> ByteLen(content), sz |-> e.n, timestamp |-> e.timestamp]

\* the file behind the handles of self.current_file
CurrentContent == IF current_file = "data" THEN data ELSE backup

\* DataFile::locate_entry: sz bytes at pos are read and parsed as one Entry
LocateEntry1(content, p) ==
    LET hit == {i \in 1..Len(content) : Offset(content, i) = p.pos /\ content[i].n = p.sz}
    IN  IF hit # {}
        THEN LET d == content[CHOOSE i \in hit : TRUE]
             IN  [kind |-> "Ok", key |-> d.key, value |-> d.value, timestamp |-> d.timestamp]
        ELSE IF p.pos + p.sz > ByteLen(content)
        THEN ErrRead("Eof")
        ELSE ErrRead("Json")

\* KvStore::get
Get1(k) ==
    IF index1[k] = NoPos1 THEN NoneR
    ELSE LET r == LocateEntry1(CurrentContent, index1[k])
         IN  IF r.kind # "Ok" THEN ErrR(r.kind)
             ELSE IF r.value # "" THEN SomeR(r.value) ELSE NoneR

\* hint_from_data: the records of data in file order; each one displaces the
\* key's previous locator
RECURSIVE HintFromData(_, _, _)
HintFromData(content, i, acc) ==
    IF i > Len(content) THEN acc
    ELSE LET d   == content[i]
             old == acc.index[d.key]
             p   == [pos |-> Offset(content, i), sz |-> d.n, timestamp |-> d.timestamp]
         IN  HintFromData(content, i + 1,
                 [index |-> [acc.index EXCEPT ![d.key] = p],
                  stale |-> acc.stale + (IF old # NoPos1 THEN old.sz ELSE 0)])

Scanned(content) == HintFromData(content, 1, [index |-> EmptyIndex1, stale |-> 0])

notSingle == <<storeVars, serverVars, identVars, poolVars, listVars, dropVars>>

\* KvStore::set and KvStore::remove: the record is appended to data, the
\* index is updated, the displaced bytes are accounted; over the threshold,
\* compact() follows
Mutate1(op, k, v) ==
    LET e  == NewEntry1(k, v)
        p  == AppendPos1(data, e)
        ub == uncompacted_bytes1
                + (IF op = "remove" THEN p.sz ELSE 0)
                + (IF index1[k] # NoPos1 THEN index1[k].sz ELSE 0)
    IN  /\ up1 /\ pc1 = "idle" /\ ops1 < MaxOpsSingle
        /\ data' = Append(data, e)
        /\ index1' = [index1 EXCEPT ![k] = p]
        /\ uncompacted_bytes1' = ub
        /\ pc1' = IF OverThreshold(ub) THEN "compact" ELSE "idle"
        /\ ops1' = ops1 + 1
        /\ hist1' = [hist1 EXCEPT !.just = FALSE, !.fresh = FALSE]
        /\ UNCHANGED <<notSingle, up1, clock1, names1, backup, hint, current_file,
                       in_drop, todo1, removed_key, sessions1>>

Set1(k, v) ==
    /\ up1
    /\ Mutate1("set", k, v)

Remove1(k) ==
    /\ index1[k] # NoPos1
    /\ Mutate1("remove", k, "")

\* remove of a key the index does not hold: Err(NonexistentKey)
RemoveNonexistent1(k) ==
    /\ up1 /\ pc1 = "idle" /\ ops1 < MaxOpsSingle
    /\ index1[k] = NoPos1
    /\ ops1' = ops1 + 1
    /\ hist1' = [hist1 EXCEPT !.just = FALSE, !.fresh = FALSE]
    /\ UNCHANGED <<notSingle, up1, clock1, names1, data, backup, hint, index1,
                   current_file, uncompacted_bytes1, pc1, in_drop, todo1, removed_key,
                   sessions1>>

\* Drop for KvStore begins: compact() is called
DropBegin ==
    /\ up1 /\ pc1 = "idle"
    /\ pc1' = "compact"
    /\ in_drop' = TRUE
    /\ hist1' = [hist1 EXCEPT !.just = FALSE, !.fresh = FALSE]
    /\ UNCHANGED <<notSingle, up1, clock1, names1, data, backup, hint, index1,
                   current_file, uncompacted_bytes1, todo1, removed_key, ops1, sessions1>>

\* compact(): rename(data, data.backup); the handles of current_file stay on
\* the renamed file
CompactRename ==
    /\ up1 /\ pc1 = "compact"
    /\ backup' = data
    /\ data' = <<>>
    /\ names1' = (names1 \ {"data"}) \cup {"data.backup"}
    /\ current_file' = "data.backup"
    /\ pc1' = "renamed"
    /\ hist1' = [hist1 EXCEPT !.pre = [k \in Keys |-> Get1(k)]]
    /\ UNCHANGED <<notSingle, up1, clock1, hint, index1, uncompacted_bytes1, in_drop,
                   todo1, removed_key, ops1, sessions1>>

\* compact(): DataFile::new creates an empty data; the loop starts
CompactNew ==
    /\ up1 /\ pc1 = "renamed"
    /\ names1' = names1 \cup {"data"}
    /\ todo1' = {k \in Keys : index1[k] # NoPos1}
    /\ removed_key' = {}
    /\ pc1' = "loop"
    /\ UNCHANGED <<notSingle, up1, clock1, data, backup, hint, index1, current_file,
                   uncompacted_bytes1, in_drop, ops1, sessions1, hist1>>

\* the memory of the process is gone
Gone ==
    /\ up1' = FALSE
    /\ index1' = EmptyIndex1
    /\ current_file' = "data"
    /\ uncompacted_bytes1' = 0
    /\ pc1' = "idle"
    /\ in_drop' = FALSE
    /\ todo1' = {}
    /\ removed_key' = {}
    /\ hist1' = [hist1 EXCEPT !.just = FALSE, !.fresh = FALSE]

\* one iteration of the loop over index.values_mut(), in the HashMap's order;
\* an error of locate_entry leaves compact() through `?`: drop panics on it,
\* and the caller of set/remove is taken to exit on it
CompactStep ==
    /\ up1 /\ pc1 = "loop" /\ todo1 # {}
    /\ \E k \in todo1 :
         LET p == index1[k]
             e == LocateEntry1(CurrentContent, p)
         IN  IF e.kind # "Ok"
             THEN /\ Gone
                  /\ UNCHANGED <<data>>
             ELSE /\ todo1' = todo1 \ {k}
                  /\ IF p.timestamp # e.timestamp
                     THEN UNCHANGED <<data, index1, removed_key>>
                     ELSE IF e.value = ""
                     THEN /\ removed_key' = removed_key \cup {e.key}
                          /\ UNCHANGED <<data, index1>>
                     ELSE LET r == [key |-> e.key, value |-> e.value,
                                    timestamp |-> e.timestamp,
                                    n |-> JsonSize(e.key, e.value)]
                          IN  /\ index1' = [index1 EXCEPT ![k] = AppendPos1(data, r)]
                              /\ data' = Append(data, r)
                              /\ UNCHANGED removed_key
                  /\ UNCHANGED <<up1, current_file, uncompacted_bytes1, pc1, in_drop, hist1>>
    /\ UNCHANGED <<notSingle, clock1, names1, backup, hint, ops1, sessions1>>

\* compact() after the loop: the collected keys leave the index, the new
\* file becomes current_file, the counter is reset
CompactSwitch ==
    /\ up1 /\ pc1 = "loop" /\ todo1 = {}
    /\ index1' = [k \in Keys |-> IF k \in removed_key THEN NoPos1 ELSE index1[k]]
    /\ removed_key' = {}
    /\ current_file' = "data"
    /\ uncompacted_bytes1' = 0
    /\ pc1' = "unlink"
    /\ UNCHANGED <<notSingle, up1, clock1, names1, data, backup, hint, in_drop, todo1,
                   ops1, sessions1, hist1>>

\* compact(): remove_file(data.backup) and Ok(()); drop goes on to the hint
CompactUnlink ==
    /\ up1 /\ pc1 = "unlink"
    /\ names1' = names1 \ {"data.backup"}
    /\ backup' = <<>>
    /\ pc1' = IF in_drop THEN "hint" ELSE "idle"
    /\ hist1' = [hist1 EXCEPT !.just = TRUE]
    /\ UNCHANGED <<notSingle, up1, clock1, data, hint, index1, current_file,
                   uncompacted_bytes1, in_drop, todo1, removed_key, ops1, sessions1>>

\* drop: the index is serialized into the file hint; the store is closed
WriteHint ==
    /\ up1 /\ pc1 = "hint"
    /\ hint' = index1
    /\ names1' = names1 \cup {"hint"}
    /\ Gone
    /\ UNCHANGED <<notSingle, clock1, data, backup, ops1, sessions1>>

\* the process ends without drop, between two steps
Crash1 ==
    /\ up1
    /\ Gone
    /\ UNCHANGED <<notSingle, clock1, names1, data, backup, hint, ops1, sessions1>>

\* KvStore::open: the index is read from hint if the file is there, and
\* else built from data; DataFile::new opens data, creating it if need be
Open1 ==
    /\ ~up1 /\ sessions1 < MaxSessions
    /\ IF "hint" \in names1
       THEN /\ index1' = hint
            /\ uncompacted_bytes1' = 0
       ELSE /\ index1' = Scanned(data).index
            /\ uncompacted_bytes1' = Scanned(data).stale
    /\ names1' = names1 \cup {"data"}
    /\ current_file' = "data"
    /\ up1' = TRUE
    /\ sessions1' = sessions1 + 1
    /\ hist1' = [hist1 EXCEPT !.just = FALSE, !.fresh = TRUE,
                              !.hinted = "hint" \in names1]
    /\ UNCHANGED <<notSingle, clock1, data, backup, hint, pc1, in_drop, todo1,
                   removed_key, ops1>>

Tick1 ==
    /\ up1 /\ pc1 = "idle" /\ clock1 < MaxClock
    /\ clock1' = clock1 + 1
    /\ UNCHANGED <<notSingle, up1, names1, data, backup, hint, index1, current_file,
                   uncompacted_bytes1, pc1, in_drop, todo1, removed_key, ops1, sessions1,
                   hist1>>

NextSingle ==
    \/ \E k \in OpKeys, v \in Values : Set1(k, v)
    \/ \E k \in OpKeys : Remove1(k)
    \/ \E k \in OpKeys : RemoveNonexistent1(k)
    \/ DropBegin
    \/ CompactRename
    \/ CompactNew
    \/ CompactStep
    \/ CompactSwitch
    \/ CompactUnlink
    \/ WriteHint
    \/ Crash1
    \/ Open1
    \/ Tick1

SpecSingle == Init /\ [][NextSingle]_vars

----------------------------------------------------------------------------
(* Properties *)

\* C1: after any sequence of set and remove, compactions included, get(k)
\* returns the value of the most recent set(k, v), or None when k was never
\* set or was removed last.
C1_LastWriteWins ==
    rpc = "done" => rres = ValueResult(hist.expected[rkey])

\* C2: a remove(k) made while k has no live value does not succeed: it
\* returns NonexistentKey.
C2_RemoveOfDeadKeyFails ==
    (hist.lastW.op = "remove" /\ ~hist.lastW.live /\ hist.lastW.res \notin {"Pending", "Err"})
        => hist.lastW.res = "NonexistentKey"

\* C3: a get that overlaps a compaction returns no error (in particular not
\* a missing segment) and returns a value some serialization explains.
C3_GetDuringCompaction ==
    (rpc = "done" /\ hist.rovl) => (rres.kind # "Err" /\ rres \in hist.rallowed)

\* C4: a get(k) started after every set so far has returned yields the last
\* acknowledged value or a later one, never an error.
C4_ReadYourWrites ==
    (rpc = "done" /\ hist.rafter) => (rres.kind # "Err" /\ rres \in hist.rallowed)

\* C5: after a clean close and reopen every key reads as it did right before
\* the close (no I/O error having occurred).
C5_CleanReopenLossless ==
    (up /\ hist.fresh /\ hist.downKind = "clean" /\ ~hist.faulty)
        => GetAll(index, dir, files) = hist.preDown

\* C6: after a crash that cut the last record of the active segment, recovery
\* yields for every key the result of the operations whose records are
\* complete (no I/O error having occurred).
C6_TornTailRecovery ==
    (up /\ hist.fresh /\ hist.downKind = "cut" /\ ~hist.faulty)
        => GetAll(index, dir, files) = ExpectedAll(hist)

\* C7: after a crash inside compact() and recovery every key reads as it did
\* just before that compaction started (no I/O error having occurred).
C7_CompactionCrashSafe ==
    (up /\ hist.fresh /\ hist.downKind = "compact" /\ ~hist.faulty)
        => GetAll(index, dir, files) = hist.preCompact

\* the locator of key k names an existing file and exactly one complete
\* record of it, of key k and of the locator's timestamp
LocatorOk(k) ==
    LET p == index[k] IN
    /\ p.file_id \in dir
    /\ \E i \in 1..Len(files[p.file_id]) :
         LET d == files[p.file_id][i] IN
         /\ Offset(files[p.file_id], i) = p.pos
         /\ Complete(d) /\ d.n = p.sz
         /\ d.key = k /\ d.timestamp = p.timestamp

\* C8: between operations every locator of the index is LocatorOk.
C8_LocatorInvariant ==
    (up /\ wpc = "idle") => \A k \in Keys : index[k] # NoPos => LocatorOk(k)

\* C9: a set or remove that returned an error left the index as it was.
C9_ErrorLeavesIndex ==
    (up /\ wpc = "idle" /\ hist.lastW.res = "Err") => index = hist.lastW.idx


\* the record that starts at the offset of locator p is complete and has an
\* empty value
LocatesEmpty(p) ==
    \E i \in 1..Len(files[p.file_id]) :
        /\ Offset(files[p.file_id], i) = p.pos
        /\ Complete(files[p.file_id][i])
        /\ files[p.file_id][i].value = ""

\* C10: a step of get changes nothing but the reader's own state and handle
\* cache, and a get returns None exactly when the key is absent from the
\* index or the record at its locator has an empty value.
C10_GetReadOnly ==
    [][rpc' # rpc =>
        /\ UNCHANGED <<index, dir, files, current_id, uncompacted_bytes,
                       last_id, wreaders, wpc>>
        /\ (rpc \in {"idle", "located", "evicted", "opened"} /\ rpc' = "done") =>
              (rres' = NoneR <=>
                  \/ rpc = "idle" /\ index[rkey'] = NoPos
                  \/ rpc = "opened" /\ LocatesEmpty(rp))]_vars

\* a get returned None for a key whose locator points to a tombstone
C10_Witness ==
    /\ rpc = "done" /\ rres = NoneR
    /\ index[rkey] # NoPos /\ index[rkey].file_id \in dir /\ LocatesEmpty(index[rkey])

\* the bytes of the data-* files of the directory
RECURSIVE DiskBytes(_)
DiskBytes(d) ==
    IF d = {} THEN 0
    ELSE LET id == CHOOSE x \in d : TRUE
         IN  ByteLen(files[id]) + DiskBytes(d \ {id})

\* the bytes of the latest record of every key that has a live value
RECURSIVE LiveBytes(_)
LiveBytes(ks) ==
    IF ks = {} THEN 0
    ELSE LET k == CHOOSE x \in ks : TRUE
         IN  (IF hist.expected[k] # "" THEN EntrySize(k, hist.expected[k]) ELSE 0)
             + LiveBytes(ks \ {k})

\* C11: right after a compaction has completed the data-* files hold
\* together exactly the bytes of the records of the keys with a live value,
\* and the new active segment is empty (no I/O error having occurred).
C11_CompactedSize ==
    (hist.justCompacted /\ ~hist.faulty) =>
        /\ files[current_id] = <<>>
        /\ DiskBytes(dir) = LiveBytes(Keys)

\* the locator of key k is that of a record of k in data-<compact_id>
InCompactSegment(k) ==
    LET p == index[k] IN
    /\ p.file_id = compact_id
    /\ \E i \in 1..Len(files[compact_id]) :
         /\ Offset(files[compact_id], i) = p.pos
         /\ files[compact_id][i].n = p.sz
         /\ files[compact_id][i].key = k

\* C18: the entries compaction has rewritten so far, and after it all
\* entries of the index, have segment_id = compact_id and the offset and
\* length of the record appended to data-<compact_id>.
C18_RewrittenLocator ==
    /\ wpc = "rewrite" =>
          \A k \in Keys : (index[k] # NoPos /\ k <= cursor) => InCompactSegment(k)
    /\ hist.justCompacted =>
          \A k \in Keys : index[k] # NoPos => InCompactSegment(k)

\* C19: a get of a key that had a live value when a compaction completed,
\* and was not set or removed since, returns that value.
C19_GetAfterCompaction ==
    (rpc = "done" /\ hist.survivor[rkey]) => rres = SomeR(hist.expected[rkey])

Expected(c, i) ==
    LET q == reqlog[c][i] IN
    CASE q.req.op = "set"    -> ""
      [] q.req.op = "get"    -> IF q.held = "" THEN KeyNotFound ELSE q.held
      [] q.req.op = "remove" -> IF q.held = "" THEN KeyNotFound ELSE ""

\* C12: on a connection (whose stream takes the writes) every request read
\* so far has its response, the i-th response answers the i-th request, and
\* the loop has ended only at the end of the stream or at a request that
\* does not deserialize.
C12_OneResponsePerRequest ==
    \A c \in Conns : cstate[c] \notin {"write error", "killed"} =>
        /\ Len(sent[c]) = Len(reqlog[c])
        /\ \A i \in 1..Len(sent[c]) :
              reqlog[c][i].req.op = "get" => sent[c][i] = Expected(c, i)
        /\ cstate[c] \in {"waiting", "refused", "open", "eof", "bad request"}

\* C13: a Remove whose engine call returned NonexistentKey is answered
\* Key not found; a Remove whose engine call returned another error gets no
\* answer and ends the loop of its connection; the listener goes on.
C13_RemoveErrors ==
    \A c \in Conns : cstate[c] \notin {"write error", "killed"} =>
        \A i \in 1..Len(reqlog[c]) : reqlog[c][i].req.op = "remove" =>
            /\ reqlog[c][i].res = "NonexistentKey" =>
                  (Len(sent[c]) >= i /\ sent[c][i] = KeyNotFound)
            /\ reqlog[c][i].res = "Err" =>
                  (Len(sent[c]) = i - 1 /\ cstate[c] = "engine error")

\* C14: every Set request is answered with the empty status, whether the
\* engine's set succeeded or failed.
C14_SetAlwaysAnswered ==
    \A c \in Conns : cstate[c] \notin {"write error", "killed"} =>
        \A i \in 1..Len(reqlog[c]) : reqlog[c][i].req.op = "set" =>
            (Len(sent[c]) >= i /\ sent[c][i] = "")

C16_SpawnDoesNotWait ==
    /\ (sender /\ Running # {} /\ \E j \in Jobs : jstate[j] = "new") =>
          ENABLED (\E j \in Jobs : Spawn(j))
    /\ (\E j \in Jobs : rstate[j] = "running") /\ (\E j \in Jobs : rstate[j] = "new") =>
          ENABLED (\E j \in Jobs : RayonSpawn(j))

Rewritten(k) ==
    \E i \in 1..Len(files[compact_id]) :
        /\ files[compact_id][i].key = k
        /\ files[compact_id][i].value = hist.expected[k]
        /\ files[compact_id][i].full

\* C21: compaction deletes only segment files with an id below compact_id,
\* and deletes one only when the loop over the index is over and every key
\* with a live value has its record in data-<compact_id>; when compaction
\* has returned Ok the directory holds exactly data-<compact_id> and
\* data-<compact_id + 1> (no I/O error having occurred).
C21_DeleteAfterRewrite ==
    /\ [][(up /\ up' /\ dir' # dir /\ dir' \subseteq dir /\ ~hist.faulty) =>
            /\ wpc = "rewrite" /\ Pending = {}
            /\ \A x \in dir \ dir' : x < compact_id
            /\ \A k \in Keys : hist.expected[k] # "" => Rewritten(k)]_vars
    /\ []((hist.justCompacted /\ ~hist.faulty) => dir = {compact_id, compact_id + 1})

\* the locator of key k leads to a complete record with an empty value
PointsToTombstone(k) ==
    /\ index[k] # NoPos
    /\ index[k].file_id \in dir
    /\ \E o \in ReadEntry(files[index[k].file_id], index[k].pos) :
          o.kind = "Ok" /\ o.value = ""

\* C22: when the loop of compaction visits a key whose locator leads to a
\* tombstone, the key leaves the index and nothing is appended to the compact
\* segment; a key with a live value is in the index after the visit.
C22_TombstonesDropped ==
    [][(up /\ up' /\ wpc = "rewrite" /\ wpc' = "rewrite" /\ cursor' # cursor
            /\ ~hist.faulty) =>
          /\ PointsToTombstone(cursor') =>
                (index'[cursor'] = NoPos /\ files' = files)
          /\ hist.expected[cursor'] # "" => index'[cursor'] # NoPos]_vars

\* C23: a set or remove that has appended its record calls compact() exactly
\* when uncompacted_bytes, after its accounting, is above 1 << 20 (at the
\* threshold itself it does not); a compaction that returns Ok has left
\* uncompacted_bytes at 0; after a set or remove that returned Ok,
\* uncompacted_bytes is at most 1 << 20.
C23_CompactionThreshold ==
    /\ [][(up /\ up' /\ ops' = ops + 1 /\ files' # files) =>
            ((wpc' = "compact") <=> (uncompacted_bytes' > COMPACTION_THRESHOLD_BYTES))]_vars
    /\ [][(up /\ up' /\ wpc = "rewrite" /\ wpc' = "idle" /\ hist'.lastW.res = "Ok") =>
            uncompacted_bytes' = 0]_vars
    /\ []((up /\ wpc = "idle" /\ hist.lastW.res = "Ok") =>
            uncompacted_bytes <= COMPACTION_THRESHOLD_BYTES)

\* a set has returned Ok with uncompacted_bytes at the threshold itself
C23_Witness ==
    /\ up /\ wpc = "idle" /\ hist.lastW.res = "Ok" /\ hist.lastW.op = "set"
    /\ uncompacted_bytes = COMPACTION_THRESHOLD_BYTES
    /\ ~hist.justCompacted

\* C24: uncompacted_bytes is the sum, over the sets and removes since the
\* last completed compaction, of the length of the locator the operation
\* displaced plus, for a remove, the length of its tombstone; a set of a key
\* the index does not hold leaves uncompacted_bytes as it is.
C24_StaleAccounting ==
    /\ [](up => uncompacted_bytes = hist.staleSum)
    /\ [][(up /\ up' /\ ops' = ops + 1 /\ files' # files /\ hist'.lastW.op = "set"
               /\ index[hist'.lastW.key] = NoPos) =>
            uncompacted_bytes' = uncompacted_bytes]_vars

\* a set, an overwriting set and a remove of the same key are accounted
C24_Witness ==
    /\ up /\ wpc = "idle" /\ hist.lastW.op = "remove" /\ hist.lastW.res = "Ok"
    /\ uncompacted_bytes = EntrySize(1, "s") + EntrySize(1, "s") + EntrySize(1, "")

IsPrefix(a, b) == Len(a) <= Len(b) /\ SubSeq(b, 1, Len(a)) = a

\* C26: across set, remove, compaction, crash and reopen, a segment file's
\* content before a step is a prefix of its content after the step as long
\* as the file exists (content goes away only with the whole file), and once
\* the store is reopened no segment that existed before the reopen changes.
C26_AppendOnly ==
    [][\A x \in Ids :
          /\ (x \in dir /\ x \in dir') => IsPrefix(files[x], files'[x])
          /\ (up /\ x \in hist.atOpen) => files'[x] = files[x]]_vars

\* after a crash and a reopen, a record has been appended to the new active
\* segment while a segment from before the reopen still holds its records
C26_Witness ==
    /\ up /\ downs > 0 /\ hist.downKind # "clean"
    /\ files[current_id] # <<>>
    /\ \E x \in hist.atOpen \cap dir : files[x] # <<>> /\ x < current_id

\* C28: the writer's current id is greater than the id of every other
\* segment file of the directory, and no step creates a file under an id a
\* file has had before, across compactions, crashes and reopens.
C28_IdsOnlyGrow ==
    /\ [](up => (current_id \in dir /\ \A x \in dir \ {current_id} : x < current_id))
    /\ [][\A x \in Ids : (x \notin dir /\ x \in dir') => x \notin hist.everIds]_vars

\* a compaction has deleted a segment, the process has gone down and the
\* store has been reopened under a new id
C28_Witness ==
    /\ up /\ downs > 0
    /\ \E x \in hist.everIds : x \notin dir /\ x < current_id
    /\ current_id - 1 \in hist.atOpen
    /\ current_id > 3

\* C29: a read through a DataReader first drops exactly the cached handles
\* with an id below the last_id it loads and keeps the others; the lookup
\* that follows adds at most the handle of the requested segment; so a read
\* that finds a handle cached with an id below last_id does not use it: the
\* handle it reads through is one it has opened itself.  The same holds of
\* the reads compaction makes through the writer's DataReader.
C29_EvictBeforeLookup ==
    /\ [][(up /\ up' /\ rpc = "located" /\ rpc' = "evicted") =>
            readers' = {id \in readers : id >= last_id}]_vars
    /\ [][(up /\ up' /\ rpc = "evicted") =>
            (readers' = readers \/ readers' = readers \cup {rp.file_id})]_vars
    /\ []((up /\ rpc = "opened") =>
            /\ rp.file_id \in readers
            /\ (rp.file_id \in hist.rold /\ rp.file_id < hist.revict) => hist.ropened)
    /\ [][(up /\ up' /\ wpc = "rewrite" /\ wreaders' # wreaders) =>
            /\ {id \in wreaders : id >= last_id} \subseteq wreaders'
            /\ wreaders' \subseteq {id \in wreaders : id >= last_id}
                                     \cup {index[NextKey].file_id}]_vars

\* a get that found a handle of data-1 cached, after a compaction has moved
\* last_id beyond it, has dropped that handle and opened the file again
C29_Witness ==
    /\ up /\ rpc = "opened"
    /\ rp.file_id \in hist.rold /\ rp.file_id < hist.revict
    /\ hist.ropened
    /\ \A id \in readers \ {rp.file_id} : id >= hist.revict

\* C30: after set(k, "") a get(k) returns None, and a compaction that runs
\* while k is still set to "" has dropped k from the index when it returns.
C30_EmptyValueDeletes ==
    /\ []((up /\ rpc = "done" /\ hist.emptied[rkey]) => rres = NoneR)
    /\ [][(up /\ up' /\ wpc = "rewrite" /\ wpc' = "idle") =>
            \A k \in Keys : hist.emptied[k] => index'[k] = NoPos]_vars

\* the name is data-<n>: the prefix once, then the digits of n
IsSegmentName(name) ==
    /\ Len(name) >= 2 /\ name[1] = "data-"
    /\ \A i \in 2..Len(name) : name[i] \in Digits

\* the ids n of the regular files named data-<n>
SegmentIds(d) == {Value(Tail(e.name)) : e \in {x \in d : x.file /\ IsSegmentName(x.name)}}

\* C27: sorted_file_id_list returns, in ascending order, exactly the ids n
\* of the regular files named data-<n>; a file with another name (identity,
\* a bare 7, data-data-7) adds no id.
C27_SortedFileIdList ==
    listed =>
        /\ \A i \in 1..(Len(id_list) - 1) : id_list[i] <= id_list[i + 1]
        /\ {id_list[i] : i \in 1..Len(id_list)} = SegmentIds(entries)

\* C34: after sets and removes without compaction, a clean exit and a
\* reopen, the sum of what generate_index returns over the segments, which
\* the reopened writer takes as its uncompacted_bytes, is the
\* uncompacted_bytes the writer held before the exit.
C34_RecoveredStaleBytes ==
    (up /\ hist.fresh /\ hist.downKind = "clean" /\ hist.atOpen = {1}) =>
        uncompacted_bytes = hist.preUb

\* the worker threads of the shared-queue pool that have not ended
Workers == receiving + Cardinality(Running) + unwinding

\* C33: once the SharedQueueThreadPool is dropped and the queue is empty,
\* every worker thread leaves its receive loop and ends.
C33_WorkersTerminate ==
    (~sender /\ queue = <<>>) ~> (Workers = 0)

\* the keys whose get returns a value
Live1 == {k \in Keys : Get1(k).kind = "Some"}

\* C32: in the single-file KvStore, in every directory reached by opens,
\* operations, clean drops and crashes, the index that open() loads from the
\* hint file equals the index a full scan of data produces
C32_HintEqualsScan ==
    (up1 /\ hist1.fresh /\ hist1.hinted) => index1 = Scanned(data).index

\* C31: in the single-file KvStore, compact() does not change the result of
\* get(k) for any key; afterwards data holds exactly one record per key with
\* a live value, every index locator points to that key's record in the new
\* data file, and data.backup no longer exists
C31_CompactPreservesGet ==
    (up1 /\ hist1.just) =>
        /\ \A k \in Keys : Get1(k) = hist1.pre[k]
        /\ Len(data) = Cardinality(Live1)
        /\ \A k \in Live1 : \E i \in 1..Len(data) : data[i].key = k
        /\ \A k \in Keys : index1[k] # NoPos1 =>
               /\ LocateEntry1(data, index1[k]).kind = "Ok"
               /\ LocateEntry1(data, index1[k]).key = k
        /\ "data.backup" \notin names1

====
